---- MODULE Spec2Model ----
(***************************************************************************)
(* Model of pkg/server/sandbox_stop.go: StopPodSandbox, stopSandboxContainer, *)
(* waitSandboxStop, teardownPod and cleanupUnknownSandbox, run by concurrent   *)
(* callers against one sandbox, together with the exit-event handling that    *)
(* moves the sandbox to NotReady.                                             *)
(***************************************************************************)
EXTENDS Naturals, Sequences, FiniteSets

\* ------------------------------------------------------------------ bounds
MaxCalls == 2          \* StopPodSandbox calls started in one behaviour

\* --------------------------------------------------------------- constants
Procs == {1, 2}                       \* concurrent callers of StopPodSandbox
SandboxID == "S"                      \* the sandbox in the sandbox store
OtherSandboxID == "T"                 \* owner of foreign containers
RequestIDs == {SandboxID, "nosuch"}   \* r.GetPodSandboxId()
NetNSPath == "/var/run/netns/S"       \* sandbox.NetNSPath
unknownExitCode == 255

StateReady == "Ready"
StateNotReady == "NotReady"
StateUnknown == "Unknown"

VARIABLES
    state,        \* sandbox.Status.Get().State
    stopped,      \* sandbox.Stopped() channel is closed
    stopFires,    \* number of times the stopped channel was closed
    taskState,    \* infra task: "running", "exited" (not yet deleted), "deleted"
    live,         \* steady-state exit subscription: "none", "armed", "done"
    netNS,        \* sandbox.NetNS != nil
    netNSClosed,  \* what sandbox.NetNS.Closed() reports
    netPlugin,    \* c.netPlugin != nil
    containers,   \* c.containerStore.List()
    calls,        \* StopPodSandbox calls started so far
    transitions,  \* successful runs of handleSandboxExit (NotReady transitions)
    okCalls,      \* StopPodSandbox calls that returned success
    teardowns,    \* calls of teardownPod so far
    initState,    \* the sandbox's state before the first call
    prior,        \* per caller: successful calls completed when its call began
    pc,           \* per caller: position in StopPodSandbox
    idx,          \* per caller: loop index over containers
    st,           \* per caller: `state` read at line 66
    sscState,     \* per caller: `state` read at line 102
    sscRet,       \* per caller: return value of stopSandboxContainer
    path,         \* per caller: netNSPath local
    ctxDone,      \* per caller: ctx.Done() is closed
    woken,        \* per caller: the event that fired first at its waitSandboxStop
    sub,          \* per caller: task.Wait subscription "none", "active", "cancelled"
    monitor,      \* per caller: exit monitor "none", "running", "stopped"
    log,          \* per caller: collaborator calls made by the current call
    ret           \* per caller: result of the last StopPodSandbox call

vars == <<state, stopped, stopFires, taskState, live, netNS, netNSClosed,
          netPlugin, containers, calls, transitions, okCalls, teardowns,
          initState, prior, pc, idx, st, sscState,
          sscRet, path, ctxDone, woken, sub, monitor, log, ret>>

\* ----------------------------------------------------------------- values
None == [kind |-> "none", step |-> "", id |-> ""]
Ok == [kind |-> "ok", step |-> "", id |-> ""]
Err(kind, step, id) == [kind |-> kind, step |-> step, id |-> id]
IsErr(r) == r.kind \notin {"none", "ok"}

\* A collaborator call: its name, its arguments (arg, n) and what it returned.
Entry(op, arg, n, res) == [op |-> op, arg |-> arg, n |-> n, pid |-> 0, res |-> res]
\* handleSandboxExit called with
\* eventtypes.TaskExit{ContainerID: id, ID: id, Pid: pid, ExitStatus: code}
TaskExit(id, pid, code, res) ==
    [op |-> "handleSandboxExit", arg |-> id, n |-> code, pid |-> pid, res |-> res]
Res(ok) == IF ok THEN "ok" ELSE "error"

Container(id, sb) == [ID |-> id, SandboxID |-> sb]
Listings ==
    { <<>>,
      <<Container("c1", SandboxID), Container("x1", OtherSandboxID),
        Container("c2", SandboxID)>> }

TypeOK ==
    /\ state \in {StateReady, StateNotReady, StateUnknown}
    /\ stopped \in BOOLEAN
    /\ taskState \in {"running", "exited", "deleted"}
    /\ live \in {"none", "armed", "done"}
    /\ containers \in Listings
    /\ calls \in 0..MaxCalls
    /\ \A p \in Procs : pc[p] \in
         {"idle", "done", "containers", "unmount", "state", "ssc", "task", "cleanup",
          "wait", "monitor", "kill", "waitstop", "blocked", "defer", "drain",
          "ssc_ret", "netns", "teardown", "remove"}

\* ------------------------------------------------------------------- Init
\* A Ready sandbox has a running task watched by the steady-state event
\* monitor; an Unknown sandbox has no active subscription and its task may be
\* running, exited or gone; a NotReady sandbox has no task.
Init ==
    /\ state \in {StateReady, StateUnknown, StateNotReady}
    /\ taskState \in {"running", "exited", "deleted"}
    /\ state = StateReady => taskState = "running"
    /\ state = StateNotReady => taskState = "deleted"
    /\ live = IF state = StateReady THEN "armed" ELSE "none"
    /\ stopped = (state = StateNotReady)
    /\ stopFires = IF state = StateNotReady THEN 1 ELSE 0
    /\ netNS \in BOOLEAN
    /\ netNSClosed = FALSE
    /\ netPlugin \in BOOLEAN
    /\ ~netNS => netPlugin      \* the plugin is only consulted for a namespace
    /\ containers \in Listings
    /\ calls = 0
    /\ transitions = 0
    /\ okCalls = 0
    /\ teardowns = 0
    /\ initState = state
    /\ prior = [p \in Procs |-> 0]
    /\ pc = [p \in Procs |-> "idle"]
    /\ idx = [p \in Procs |-> 0]
    /\ st = [p \in Procs |-> ""]
    /\ sscState = [p \in Procs |-> ""]
    /\ sscRet = [p \in Procs |-> None]
    /\ path = [p \in Procs |-> ""]
    /\ ctxDone = [p \in Procs |-> FALSE]
    /\ woken = [p \in Procs |-> "none"]
    /\ sub = [p \in Procs |-> "none"]
    /\ monitor = [p \in Procs |-> "none"]
    /\ log = [p \in Procs |-> <<>>]
    /\ ret = [p \in Procs |-> None]

\* ---------------------------------------------------------------- helpers
sandboxVars == <<state, stopped, stopFires, transitions>>
envVars == <<netNS, netPlugin, containers, initState>>
countVars == <<calls, teardowns, prior>>

Goto(p, l) == pc' = [pc EXCEPT ![p] = l]
Logged(p, e) == log' = [log EXCEPT ![p] = Append(@, e)]

\* The counters of calls stop counting at MaxCalls.
Counted(n) == IF n < MaxCalls THEN n + 1 ELSE n

\* A return statement of StopPodSandbox: the call ends with result r.
Return(p, r) ==
    /\ ret' = [ret EXCEPT ![p] = r]
    /\ pc' = [pc EXCEPT ![p] = "done"]
    /\ okCalls' = IF r.kind = "ok" THEN Counted(okCalls) ELSE okCalls

\* handleSandboxExit: on success the status becomes NotReady and the one-shot
\* stopped channel is closed, which wakes every blocked waitSandboxStop that
\* no other event has woken yet; on error nothing changes.
handleSandboxExit(ok) ==
    IF ok
    THEN /\ state' = StateNotReady
         /\ stopped' = TRUE
         /\ stopFires' = IF stopped THEN stopFires ELSE stopFires + 1
         /\ transitions' = transitions + 1
         /\ woken' = [q \in Procs |->
                IF pc[q] = "blocked" /\ woken[q] = "none" THEN "stopped" ELSE woken[q]]
    ELSE UNCHANGED <<state, stopped, stopFires, transitions, woken>>

\* ------------------------------------------------- StopPodSandbox (37-94)
ForcedStopTimeout == 0     \* c.stopContainer(ctx, container, 0)
SIGKILL == 9               \* syscall.SIGKILL

\* line 67: only stop the sandbox container when it is running or unknown
NeedsStopAlways(s) == TRUE
NeedsStopNever(s) == FALSE
NeedsStop(s) == s = StateReady \/ s = StateUnknown

\* lines 61-66: after the sandbox files are unmounted, the state is read
AfterUnmount == "state"

\* lines 75-82: empty netns path if the namespace is closed
NetNSPathAlways(closed) == NetNSPath
NetNSPathFor(closed) == IF closed THEN "" ELSE NetNSPath

\* line 164: teardownPod fails fast when no network plugin is configured
PluginMissingIgnored(plugin) == FALSE
PluginMissing(plugin) == ~plugin

\* lines 86-88: NetNS.Remove() is called on the resource; the sandbox's NetNS
\* reference itself is left as it is
NetNSCleared(ns) == FALSE
NetNSAfterRemove(ns) == ns

\* lines 51-53: containers of other sandboxes are skipped
SkippedNever(container, id) == FALSE
Skipped(container, id) == container.SandboxID # id

\* line 56: a failed stop of a member container ends the call
StopFailedIgnored(ok) == FALSE
StopFailed(ok) == ~ok

\* NetNS.Remove(): the namespace is closed and released
NetNSRemoved(closed) == TRUE

\* lines 38-44: sandboxStore.Get
Lookup(p, id) ==
    /\ pc[p] = "idle"
    /\ prior' = [prior EXCEPT ![p] = okCalls]
    /\ IF id # SandboxID
       THEN /\ Return(p, Err("NotFound", "find sandbox", id))
            /\ UNCHANGED idx
       ELSE /\ Goto(p, "containers")
            /\ idx' = [idx EXCEPT ![p] = 1]
            /\ UNCHANGED <<ret, okCalls>>
    /\ UNCHANGED <<sandboxVars, envVars, taskState, live, netNSClosed,
                   teardowns, st, sscState, sscRet, path, ctxDone, woken,
                   sub, monitor, log>>

\* A call of StopPodSandbox begins.
Get(p, id) ==
    /\ calls < MaxCalls
    \* callers are alike: caller 2 only calls while caller 1's call is running
    /\ p = 1 \/ pc[1] \notin {"idle", "done"}
    /\ calls' = calls + 1
    /\ Lookup(p, id)

\* The caller invokes StopPodSandbox again, any number of times.
Retry(p, id) ==
    /\ calls = MaxCalls
    /\ UNCHANGED calls
    /\ Lookup(p, id)

\* The caller has its result; the call's locals go away.
Finish(p) ==
    /\ pc[p] = "done"
    /\ Goto(p, "idle")
    /\ idx' = [idx EXCEPT ![p] = 0]
    /\ st' = [st EXCEPT ![p] = ""]
    /\ sscState' = [sscState EXCEPT ![p] = ""]
    /\ sscRet' = [sscRet EXCEPT ![p] = None]
    /\ path' = [path EXCEPT ![p] = ""]
    /\ ctxDone' = [ctxDone EXCEPT ![p] = FALSE]
    /\ woken' = [woken EXCEPT ![p] = "none"]
    /\ sub' = [sub EXCEPT ![p] = "none"]
    /\ monitor' = [monitor EXCEPT ![p] = "none"]
    /\ log' = [log EXCEPT ![p] = <<>>]
    /\ ret' = [ret EXCEPT ![p] = None]
    /\ prior' = [prior EXCEPT ![p] = 0]
    /\ UNCHANGED <<sandboxVars, envVars, taskState, live, netNSClosed, calls,
                   okCalls, teardowns>>

\* lines 49-59: stop, in listing order, the containers of this sandbox
StopContainers(p) ==
    /\ pc[p] = "containers"
    /\ UNCHANGED <<sandboxVars, envVars, countVars, taskState, live,
                   netNSClosed, st, sscState, sscRet, path, ctxDone, woken,
                   sub, monitor>>
    /\ IF idx[p] > Len(containers)
       THEN /\ Goto(p, "unmount")
            /\ UNCHANGED <<idx, log, ret, okCalls>>
       ELSE IF Skipped(containers[idx[p]], SandboxID)
       THEN /\ idx' = [idx EXCEPT ![p] = @ + 1]
            /\ UNCHANGED <<pc, log, ret, okCalls>>
       ELSE \E ok \in BOOLEAN :
            /\ Logged(p, Entry("stopContainer", containers[idx[p]].ID,
                               ForcedStopTimeout, Res(ok)))
            /\ IF ~StopFailed(ok)
               THEN /\ idx' = [idx EXCEPT ![p] = @ + 1]
                    /\ UNCHANGED <<pc, ret, okCalls>>
               ELSE /\ Return(p, Err("Upstream", "failed to stop container",
                                     containers[idx[p]].ID))
                    /\ UNCHANGED idx

\* lines 61-63: unmountSandboxFiles
Unmount(p) ==
    /\ pc[p] = "unmount"
    /\ UNCHANGED <<sandboxVars, envVars, countVars, taskState, live,
                   netNSClosed, idx, st, sscState, sscRet, path, ctxDone,
                   woken, sub, monitor>>
    /\ \E ok \in BOOLEAN :
         /\ Logged(p, Entry("unmountSandboxFiles", SandboxID, 0, Res(ok)))
         /\ IF ok
            THEN /\ Goto(p, AfterUnmount)
                 /\ UNCHANGED <<ret, okCalls>>
            ELSE Return(p, Err("Upstream", "failed to unmount sandbox files",
                               SandboxID))

\* lines 66-67: read the state and decide whether to stop the sandbox container
ReadState(p) ==
    /\ pc[p] = "state"
    /\ st' = [st EXCEPT ![p] = state]
    /\ Goto(p, IF NeedsStop(state) THEN "ssc" ELSE "netns")
    /\ UNCHANGED <<sandboxVars, envVars, countVars, taskState, live,
                   netNSClosed, okCalls, idx, sscState, sscRet, path, ctxDone,
                   woken, sub, monitor, log, ret>>

\* lines 68-71: the result of stopSandboxContainer
SscReturn(p) ==
    /\ pc[p] = "ssc_ret"
    /\ UNCHANGED <<sandboxVars, envVars, countVars, taskState, live,
                   netNSClosed, idx, st, sscState, sscRet, path, ctxDone,
                   woken, sub, monitor, log>>
    /\ IF IsErr(sscRet[p])
       THEN Return(p, Err(sscRet[p].kind, "failed to stop sandbox container",
                          SandboxID))
       ELSE /\ Goto(p, "netns")
            /\ UNCHANGED <<ret, okCalls>>

\* lines 74-82: sandbox.NetNS != nil, NetNS.Closed()
NetNSCheck(p) ==
    /\ pc[p] = "netns"
    /\ UNCHANGED <<sandboxVars, envVars, countVars, taskState, live,
                   netNSClosed, idx, st, sscState, sscRet, ctxDone, woken,
                   sub, monitor>>
    /\ IF ~netNS
       THEN /\ Return(p, Ok)
            /\ UNCHANGED <<log, path>>
       ELSE \/ /\ Logged(p, Entry("NetNS.Closed", SandboxID, 0,
                                  IF netNSClosed THEN "closed" ELSE "open"))
               /\ path' = [path EXCEPT ![p] = NetNSPathFor(netNSClosed)]
               /\ Goto(p, "teardown")
               /\ UNCHANGED <<ret, okCalls>>
            \/ /\ Logged(p, Entry("NetNS.Closed", SandboxID, 0, "error"))
               /\ Return(p, Err("Upstream",
                                "failed to check network namespace closed",
                                SandboxID))
               /\ UNCHANGED path

\* lines 83-85 and teardownPod (163-173)
teardownPod(p) ==
    /\ pc[p] = "teardown"
    /\ teardowns' = Counted(teardowns)
    /\ UNCHANGED <<sandboxVars, envVars, calls, prior, taskState, live,
                   netNSClosed, idx, st, sscState, sscRet, path, ctxDone,
                   woken, sub, monitor>>
    /\ IF PluginMissing(netPlugin)
       THEN /\ Logged(p, Entry("teardownPod", path[p], 0, "ConfigError"))
            /\ Return(p, Err("ConfigError", "failed to destroy network", SandboxID))
       ELSE \E ok \in BOOLEAN :
            /\ log' = [log EXCEPT ![p] =
                   Append(Append(@, Entry("teardownPod", path[p], 0, Res(ok))),
                          Entry("netPlugin.Remove", path[p], 0, Res(ok)))]
            /\ IF ok
               THEN /\ Goto(p, "remove")
                    /\ UNCHANGED <<ret, okCalls>>
               ELSE Return(p, Err("Upstream", "failed to destroy network",
                                  SandboxID))

\* lines 86-93: sandbox.NetNS.Remove(), then success
RemoveNetNS(p) ==
    /\ pc[p] = "remove"
    /\ UNCHANGED <<sandboxVars, netPlugin, containers, initState, countVars,
                   taskState, live, idx, st, sscState, sscRet, path, ctxDone,
                   woken, sub, monitor>>
    /\ \E ok \in BOOLEAN :
         /\ Logged(p, Entry("NetNS.Remove", SandboxID, 0, Res(ok)))
         /\ IF ok
            THEN /\ netNSClosed' = NetNSRemoved(netNSClosed)
                 /\ netNS' = NetNSAfterRemove(netNS)
                 /\ Return(p, Ok)
            ELSE /\ UNCHANGED <<netNS, netNSClosed>>
                 /\ Return(p, Err("Upstream", "failed to remove network namespace",
                                  SandboxID))

\* ------------------------------------------- stopSandboxContainer (99-146)
\* lines 104-113: the task is not found
AfterTaskNotFoundNoCleanup(s) == "ssc_ret"
AfterTaskNotFoundAlwaysCleanup(s) == "cleanup"
AfterTaskNotFoundInverted(s) == IF s = StateUnknown THEN "ssc_ret" ELSE "cleanup"
AfterTaskNotFound(s) == IF s = StateUnknown THEN "cleanup" ELSE "ssc_ret"

\* lines 115-140: the task exists; an Unknown sandbox first gets an exit
\* subscription and an exit monitor
AfterTaskFoundKillFirst(s) == "kill"
AfterTaskFound(s) == IF s = StateUnknown THEN "wait" ELSE "kill"

\* lines 141-145: after the kill was sent (or found no task), wait for the stop
AfterKillNoWait == "ssc_ret"
AfterKill == "waitstop"

\* lines 120, 131-137: the deferred calls that run when stopSandboxContainer
\* returns after the exit monitor was started
AfterStopDrainFirst(m) == IF m = "none" THEN "ssc_ret" ELSE "drain"
AfterStop(m) == IF m = "none" THEN "ssc_ret" ELSE "defer"

\* line 136: <-stopCh returns once the exit monitor has closed stopCh
DrainReadyAlways(m) == TRUE
DrainReady(m) == m = "stopped"

\* lines 122-127: task.Wait failed; not-found falls back to the cleanup
AfterWaitFailedNoCleanup(notFound) == "ssc_ret"
AfterWaitFailed(notFound) == IF notFound THEN "cleanup" ELSE "ssc_ret"

\* line 141: a kill error ends the call unless it is not-found
KillAbortsOnNotFound(res) == res # "ok"
KillAborts(res) == res \notin {"ok", "NotFound"}

\* lines 153-158: the result of each select case of waitSandboxStop
SelectResultCancelOk(c, id) ==
    CASE c = "cancelled" -> Ok
      [] c = "timeout"   -> Err("Timeout", "wait sandbox container stop timeout", id)
      [] c = "stopped"   -> Ok
SelectResultTimeoutOk(c, id) ==
    CASE c = "cancelled" -> Err("Cancelled", "wait sandbox container is cancelled", id)
      [] c = "timeout"   -> Ok
      [] c = "stopped"   -> Ok
SelectResult(c, id) ==
    CASE c = "cancelled" -> Err("Cancelled", "wait sandbox container is cancelled", id)
      [] c = "timeout"   -> Err("Timeout", "wait sandbox container stop timeout", id)
      [] c = "stopped"   -> Ok

\* lines 152-158: the select cases that are ready when waitSandboxStop starts;
\* the timer was only just created
ReadyCasesStoppedAlways(done, closed) ==
    {"stopped"} \cup (IF done THEN {"cancelled"} ELSE {})
ReadyCases(done, closed) ==
    {c \in {"cancelled", "stopped"} :
        \/ c = "cancelled" /\ done
        \/ c = "stopped" /\ closed}

\* lines 100-102
SscReadState(p) ==
    /\ pc[p] = "ssc"
    /\ sscState' = [sscState EXCEPT ![p] = state]
    /\ Goto(p, "task")
    /\ UNCHANGED <<sandboxVars, envVars, countVars, taskState, live,
                   netNSClosed, okCalls, idx, st, sscRet, path, ctxDone, woken,
                   sub, monitor, log, ret>>

\* lines 103-113: container.Task
SscTask(p) ==
    /\ pc[p] = "task"
    /\ UNCHANGED <<sandboxVars, envVars, countVars, taskState, live,
                   netNSClosed, okCalls, idx, st, sscState, path, ctxDone,
                   woken, sub, monitor, ret>>
    /\ \/ /\ taskState # "deleted"
          /\ Logged(p, Entry("container.Task", SandboxID, 0, "found"))
          /\ Goto(p, AfterTaskFound(sscState[p]))
          /\ UNCHANGED sscRet
       \/ /\ taskState = "deleted"
          /\ Logged(p, Entry("container.Task", SandboxID, 0, "NotFound"))
          /\ Goto(p, AfterTaskNotFound(sscState[p]))
          /\ sscRet' = [sscRet EXCEPT ![p] = Ok]
       \/ /\ Logged(p, Entry("container.Task", SandboxID, 0, "error"))
          /\ Goto(p, "ssc_ret")
          /\ sscRet' = [sscRet EXCEPT ![p] =
                 Err("Upstream", "failed to get sandbox container", SandboxID)]

\* cleanupUnknownSandbox (176-185): one synthetic exit event through
\* handleSandboxExit, whose result is returned
cleanupUnknownSandbox(p) ==
    /\ pc[p] = "cleanup"
    /\ Goto(p, "ssc_ret")
    /\ \E ok \in BOOLEAN :
         /\ Logged(p, TaskExit(SandboxID, 0, unknownExitCode, Res(ok)))
         /\ handleSandboxExit(ok)
         /\ sscRet' = [sscRet EXCEPT ![p] =
                IF ok THEN Ok ELSE Err("Upstream", "handleSandboxExit", SandboxID)]
    /\ UNCHANGED <<envVars, countVars, taskState, live, netNSClosed, okCalls,
                   idx, st, sscState, path, ctxDone, sub, monitor, ret>>

\* lines 119-127: task.Wait
SscWait(p) ==
    /\ pc[p] = "wait"
    /\ UNCHANGED <<sandboxVars, envVars, countVars, taskState, live,
                   netNSClosed, okCalls, idx, st, sscState, path, ctxDone,
                   woken, monitor, ret>>
    /\ \/ /\ taskState # "deleted"
          /\ Logged(p, Entry("task.Wait", SandboxID, 0, "ok"))
          /\ sub' = [sub EXCEPT ![p] = "active"]
          /\ Goto(p, "monitor")
          /\ UNCHANGED sscRet
       \/ /\ taskState = "deleted"
          /\ Logged(p, Entry("task.Wait", SandboxID, 0, "NotFound"))
          /\ Goto(p, AfterWaitFailed(TRUE))
          /\ UNCHANGED <<sub, sscRet>>
       \/ /\ Logged(p, Entry("task.Wait", SandboxID, 0, "error"))
          /\ Goto(p, AfterWaitFailed(FALSE))
          /\ sscRet' = [sscRet EXCEPT ![p] =
                 Err("Upstream", "failed to wait for task", SandboxID)]
          /\ UNCHANGED sub

\* lines 129-130: startExitMonitor
SscMonitor(p) ==
    /\ pc[p] = "monitor"
    /\ Logged(p, Entry("startExitMonitor", SandboxID, 0, ""))
    /\ monitor' = [monitor EXCEPT ![p] = "running"]
    /\ Goto(p, "kill")
    /\ UNCHANGED <<sandboxVars, envVars, countVars, taskState, live,
                   netNSClosed, okCalls, idx, st, sscState, sscRet, path,
                   ctxDone, woken, sub, ret>>

\* lines 141-143: task.Kill(SIGKILL); not-found is tolerated
SscKill(p) ==
    /\ pc[p] = "kill"
    /\ UNCHANGED <<sandboxVars, envVars, countVars, taskState, live,
                   netNSClosed, okCalls, idx, st, sscState, path, ctxDone,
                   woken, sub, monitor, ret>>
    /\ \E res \in {"ok", "NotFound", "error"} :
         /\ res = "ok" => taskState = "running"
         /\ res = "NotFound" => taskState # "running"
         /\ Logged(p, Entry("task.Kill", SandboxID, SIGKILL, res))
         /\ IF KillAborts(res)
            THEN /\ Goto(p, AfterStop(monitor[p]))
                 /\ sscRet' = [sscRet EXCEPT ![p] =
                        Err("Upstream", "failed to kill sandbox container", SandboxID)]
            ELSE /\ Goto(p, AfterKill)
                 /\ UNCHANGED sscRet

\* what the select of line 152 finds when it is first evaluated
AtEntry(ready) ==
    IF ready = {} THEN "blocked"
    ELSE IF ready = {"stopped"} THEN "stopped"
    ELSE IF ready = {"cancelled"} THEN "cancelled"
    ELSE "both"

\* waitSandboxStop (149-160): the select finds a ready case, or blocks
waitSandboxStop(p) ==
    /\ pc[p] = "waitstop"
    /\ Logged(p, Entry("waitSandboxStop", SandboxID, 0,
                       AtEntry(ReadyCases(ctxDone[p], stopped))))
    /\ UNCHANGED <<sandboxVars, envVars, countVars, taskState, live,
                   netNSClosed, okCalls, idx, st, sscState, path, ctxDone,
                   woken, sub, monitor, ret>>
    /\ IF ReadyCases(ctxDone[p], stopped) = {}
       THEN /\ Goto(p, "blocked")
            /\ UNCHANGED sscRet
       ELSE \E c \in ReadyCases(ctxDone[p], stopped) :
            /\ sscRet' = [sscRet EXCEPT ![p] = SelectResult(c, SandboxID)]
            /\ Goto(p, AfterStop(monitor[p]))

\* waitSandboxStop, blocked in the select: the first event to fire decides
WaitWake(p) ==
    /\ pc[p] = "blocked"
    /\ woken[p] # "none"
    /\ sscRet' = [sscRet EXCEPT ![p] = SelectResult(woken[p], SandboxID)]
    /\ Goto(p, AfterStop(monitor[p]))
    /\ UNCHANGED <<sandboxVars, envVars, countVars, taskState, live,
                   netNSClosed, okCalls, idx, st, sscState, path, ctxDone,
                   woken, sub, monitor, log, ret>>

\* lines 131-132: the deferred exitCancel()
ExitCancel(p) ==
    /\ pc[p] = "defer"
    /\ Logged(p, Entry("exitCancel", SandboxID, 0, ""))
    /\ Goto(p, "drain")
    /\ UNCHANGED <<sandboxVars, envVars, countVars, taskState, live,
                   netNSClosed, okCalls, idx, st, sscState, sscRet, path,
                   ctxDone, woken, sub, monitor, ret>>

\* line 136 then line 120: <-stopCh, and only then the deferred waitCancel()
Drain(p) ==
    /\ pc[p] = "drain"
    /\ DrainReady(monitor[p])
    /\ Logged(p, Entry("waitCancel", SandboxID, 0, ""))
    /\ sub' = [sub EXCEPT ![p] = "cancelled"]
    /\ Goto(p, "ssc_ret")
    /\ UNCHANGED <<sandboxVars, envVars, countVars, taskState, live,
                   netNSClosed, okCalls, idx, st, sscState, sscRet, path,
                   ctxDone, woken, monitor, ret>>

\* ------------------------------------------------------------ environment
\* The caller's context is cancelled before or during waitSandboxStop. The
\* first event to fire is recorded: the cancellation, unless the wait was
\* woken already or the stopped channel was closed before.
CancelCtx(p) ==
    /\ pc[p] \in {"waitstop", "blocked"}
    /\ ~ctxDone[p]
    /\ ctxDone' = [ctxDone EXCEPT ![p] = TRUE]
    /\ woken' = [woken EXCEPT ![p] =
           IF @ # "none" THEN @ ELSE IF stopped THEN "stopped" ELSE "cancelled"]
    /\ UNCHANGED <<sandboxVars, envVars, countVars, taskState, live,
                   netNSClosed, okCalls, pc, idx, st, sscState, sscRet, path,
                   sub, monitor, log, ret>>

\* timeoutTimer fires while waitSandboxStop is blocked.
TimerFire(p) ==
    /\ pc[p] = "blocked"
    /\ woken[p] = "none"
    /\ woken' = [woken EXCEPT ![p] = "timeout"]
    /\ UNCHANGED <<sandboxVars, envVars, countVars, taskState, live,
                   netNSClosed, okCalls, pc, idx, st, sscState, sscRet, path,
                   ctxDone, sub, monitor, log, ret>>

\* The infra process exits (killed or on its own).
TaskExits ==
    /\ taskState = "running"
    /\ taskState' = "exited"
    /\ UNCHANGED <<sandboxVars, envVars, countVars, live, netNSClosed,
                   okCalls, pc, idx, st, sscState, sscRet, path, ctxDone,
                   woken, sub, monitor, log, ret>>

\* The exited task's record is deleted from the runtime. Only container.Task
\* and task.Wait can tell an exited task from a deleted one, so the deletion
\* is taken when one of them is about to be called.
TaskReaped ==
    /\ taskState = "exited"
    /\ \E p \in Procs : pc[p] \in {"task", "wait"}
    /\ taskState' = "deleted"
    /\ UNCHANGED <<sandboxVars, envVars, countVars, live, netNSClosed,
                   okCalls, pc, idx, st, sscState, sscRet, path, ctxDone,
                   woken, sub, monitor, log, ret>>

\* The steady-state event monitor handles the exit event of a sandbox that
\* was Ready.
LiveExit ==
    /\ live = "armed"
    /\ taskState # "running"
    /\ live' = "done"
    /\ \E ok \in BOOLEAN : handleSandboxExit(ok)
    /\ UNCHANGED <<envVars, countVars, taskState, netNSClosed, okCalls, pc,
                   idx, st, sscState, sscRet, path, ctxDone, sub, monitor,
                   log, ret>>

\* The exit monitor started at line 130 receives an exit status on its
\* channel (the task exited, or its Wait subscription was cancelled), handles
\* it and closes stopCh.
MonitorExit(p) ==
    /\ monitor[p] = "running"
    /\ taskState # "running" \/ sub[p] = "cancelled"
    /\ monitor' = [monitor EXCEPT ![p] = "stopped"]
    /\ \E ok \in BOOLEAN : handleSandboxExit(ok)
    /\ UNCHANGED <<envVars, countVars, taskState, live, netNSClosed, okCalls,
                   pc, idx, st, sscState, sscRet, path, ctxDone, sub, log, ret>>

\* The exit monitor sees its context cancelled and closes stopCh.
MonitorCancelled(p) ==
    /\ monitor[p] = "running"
    /\ \E i \in DOMAIN log[p] : log[p][i].op = "exitCancel"
    /\ monitor' = [monitor EXCEPT ![p] = "stopped"]
    /\ UNCHANGED <<sandboxVars, envVars, countVars, taskState, live,
                   netNSClosed, okCalls, pc, idx, st, sscState, sscRet, path,
                   ctxDone, woken, sub, log, ret>>

\* ------------------------------------------------------------------- Next
Next ==
    \/ \E p \in Procs, id \in RequestIDs : Get(p, id)
    \/ \E p \in Procs : Finish(p)
    \/ \E p \in Procs : StopContainers(p)
    \/ \E p \in Procs : Unmount(p)
    \/ \E p \in Procs : ReadState(p)
    \/ \E p \in Procs : SscReadState(p)
    \/ \E p \in Procs : SscTask(p)
    \/ \E p \in Procs : cleanupUnknownSandbox(p)
    \/ \E p \in Procs : SscWait(p)
    \/ \E p \in Procs : SscMonitor(p)
    \/ \E p \in Procs : SscKill(p)
    \/ \E p \in Procs : waitSandboxStop(p)
    \/ \E p \in Procs : WaitWake(p)
    \/ \E p \in Procs : ExitCancel(p)
    \/ \E p \in Procs : Drain(p)
    \/ \E p \in Procs : SscReturn(p)
    \/ \E p \in Procs : NetNSCheck(p)
    \/ \E p \in Procs : teardownPod(p)
    \/ \E p \in Procs : RemoveNetNS(p)
    \/ \E p \in Procs : CancelCtx(p)
    \/ \E p \in Procs : TimerFire(p)
    \/ \E p \in Procs : MonitorExit(p)
    \/ \E p \in Procs : MonitorCancelled(p)
    \/ TaskExits
    \/ TaskReaped
    \/ LiveExit

Spec == Init /\ [][Next]_vars

\* A call in progress takes its next step: every collaborator call returns.
Step(p) ==
    \/ StopContainers(p) \/ Unmount(p) \/ ReadState(p)
    \/ SscReadState(p) \/ SscTask(p) \/ cleanupUnknownSandbox(p)
    \/ SscWait(p) \/ SscMonitor(p) \/ SscKill(p)
    \/ waitSandboxStop(p) \/ WaitWake(p) \/ ExitCancel(p) \/ Drain(p)
    \/ SscReturn(p) \/ NetNSCheck(p) \/ teardownPod(p) \/ RemoveNetNS(p)

\* ------------------------------------------------- one caller, retrying
\* One caller invokes StopPodSandbox over and over, each call after the
\* previous one has returned.
Caller == 1

SoloEnv ==
    \/ \E id \in RequestIDs : Get(Caller, id)
    \/ Retry(Caller, SandboxID)
    \/ Finish(Caller)
    \/ CancelCtx(Caller)
    \/ TimerFire(Caller)
    \/ MonitorExit(Caller)
    \/ MonitorCancelled(Caller)
    \/ TaskExits
    \/ TaskReaped

SoloNext == SoloEnv \/ Step(Caller) \/ LiveExit

\* Every collaborator call returns, the timeout timer fires unless another
\* event wakes the wait first, and an exit monitor whose context was
\* cancelled closes stopCh.
Returns ==
    /\ WF_vars(Step(Caller))
    /\ WF_vars(TimerFire(Caller))
    /\ WF_vars(MonitorCancelled(Caller))

ReturnsSpec == Init /\ [][SoloNext]_vars /\ Returns

\* Retries: in the calls counted up to MaxCalls - 1 any collaborator call may
\* fail; from then on the collaborators' transient errors are over (a
\* missing network plugin stays missing), and the steady-state event monitor
\* handles the exit event successfully.
NoErrors(p) == \A i \in DOMAIN log[p] : log[p][i].res # "error"
RetryStep(p) == Step(p) /\ (calls = MaxCalls => NoErrors(p)')
LiveExitHandled == LiveExit /\ state' = StateNotReady

RetryNext == SoloEnv \/ RetryStep(Caller) \/ LiveExitHandled

\* The caller keeps re-invoking StopPodSandbox for the sandbox, every call
\* returns, the infra process exits, its exit event is handled by the
\* steady-state monitor, and the exit monitor of line 130, started again by
\* every retry, does not fail to handle the exit forever.
Retrying ==
    /\ WF_vars(RetryStep(Caller))
    /\ WF_vars(TimerFire(Caller))
    /\ WF_vars(MonitorCancelled(Caller))
    /\ WF_vars(Finish(Caller))
    /\ WF_vars(\E id \in RequestIDs : Get(Caller, id))
    /\ WF_vars(Retry(Caller, SandboxID))
    /\ WF_vars(TaskExits)
    /\ WF_vars(LiveExitHandled)
    /\ SF_vars(MonitorExit(Caller) /\ state' = StateNotReady)

RetrySpec == Init /\ [][RetryNext]_vars /\ Retrying

\* ----------------------------------------------------- reading the logs
Has(p, op) == \E i \in DOMAIN log[p] : log[p][i].op = op
HasRes(p, op, res) ==
    \E i \in DOMAIN log[p] : log[p][i].op = op /\ log[p][i].res = res
Count(p, op) == Cardinality({i \in DOMAIN log[p] : log[p][i].op = op})
Ops(p) == [i \in DOMAIN log[p] |-> log[p][i].op]
InfraOps ==
    {"container.Task", "task.Wait", "startExitMonitor", "task.Kill",
     "waitSandboxStop", "handleSandboxExit"}
NetworkSteps ==
    {"failed to check network namespace closed", "failed to destroy network",
     "failed to remove network namespace"}
\* every collaborator call of the current call returned success
AllSucceeded(p) ==
    \A i \in DOMAIN log[p] : log[p][i].res \notin {"error", "NotFound", "ConfigError"}
\* waitSandboxStop was called and has returned
WaitReturned(p) ==
    Has(p, "waitSandboxStop") /\ pc[p] \notin {"waitstop", "blocked"}

\* ------------------------------------------------------------------ claims

C3_SingleTransition == transitions <= 1

\* C4: when the state read is Unknown and the task query reports not-found,
\* the call makes no exit subscription, starts no monitor, sends no kill and
\* enters no wait; it feeds exactly one synthetic exit event (pid 0, unknown
\* exit code) to handleSandboxExit and returns that call's result, the
\* sandbox being NotReady when it succeeded.
C4_ReconcilerPath ==
    \A p \in Procs :
        (sscState[p] = StateUnknown /\ HasRes(p, "container.Task", "NotFound")) =>
            /\ \A op \in {"task.Wait", "startExitMonitor", "task.Kill",
                          "waitSandboxStop", "exitCancel", "waitCancel"} : ~Has(p, op)
            /\ pc[p] = "cleanup" => Count(p, "handleSandboxExit") = 0
            /\ pc[p] # "cleanup" =>
                   /\ Count(p, "handleSandboxExit") = 1
                   /\ \E res \in {"ok", "error"} :
                        /\ \E i \in DOMAIN log[p] :
                               log[p][i] = TaskExit(SandboxID, 0, unknownExitCode, res)
                        /\ IsErr(sscRet[p]) <=> res = "error"
                        /\ res = "ok" => sscRet[p] = Ok /\ state = StateNotReady

C4_Witness ==
    \E p \in Procs :
        /\ sscState[p] = StateUnknown
        /\ HasRes(p, "container.Task", "NotFound")
        /\ HasRes(p, "handleSandboxExit", "ok")
        /\ pc[p] = "done" /\ ret[p] = Ok

\* C5: in a call that read the state Unknown, every kill is preceded by a
\* successful task.Wait and, after it, by startExitMonitor.
C5_SubscribeBeforeKill ==
    \A p \in Procs :
        sscState[p] = StateUnknown =>
            \A k \in DOMAIN log[p] :
                log[p][k].op = "task.Kill" =>
                    \E i, j \in 1..(k - 1) :
                        /\ i < j
                        /\ log[p][i].op = "task.Wait" /\ log[p][i].res = "ok"
                        /\ log[p][j].op = "startExitMonitor"

C5_Witness ==
    \E p \in Procs : sscState[p] = StateUnknown /\ HasRes(p, "task.Kill", "ok")

\* C6: waitSandboxStop returns one of exactly three results: success, only
\* if the stopped signal fired; a cancellation error, only if the caller's
\* context ended; a timeout error, only if the timer fired, and always when
\* neither the signal fired nor the context ended. Both errors carry the
\* sandbox ID.
C6_WaitOutcome ==
    \A p \in Procs :
        WaitReturned(p) =>
            /\ sscRet[p] \in
                 {Ok,
                  Err("Timeout", "wait sandbox container stop timeout", SandboxID),
                  Err("Cancelled", "wait sandbox container is cancelled", SandboxID)}
            /\ sscRet[p] = Ok => stopped
            /\ sscRet[p].kind = "Cancelled" => ctxDone[p]
            /\ sscRet[p].kind = "Timeout" => woken[p] = "timeout"
            /\ (~stopped /\ ~ctxDone[p]) => sscRet[p].kind = "Timeout"

C6_Witness ==
    \E p \in Procs :
        /\ WaitReturned(p)
        /\ sscRet[p].kind = "Timeout"
        /\ ~stopped /\ ~ctxDone[p]

\* C7: teardownPod is always called right after a successful NetNS.Closed
\* query, with the empty path if it reported closed and the sandbox's netns
\* path otherwise; a failed query ends the call with an error and no teardown.
C7_TeardownPath ==
    \A p \in Procs : \A i \in DOMAIN log[p] :
        /\ log[p][i].op = "teardownPod" =>
               /\ i > 1
               /\ log[p][i - 1].op = "NetNS.Closed"
               /\ log[p][i - 1].res \in {"closed", "open"}
               /\ log[p][i].arg =
                      (IF log[p][i - 1].res = "closed" THEN "" ELSE NetNSPath)
        /\ (log[p][i].op = "NetNS.Closed" /\ log[p][i].res = "error") =>
               /\ i = Len(log[p])
               /\ pc[p] = "done"
               /\ ret[p] = Err("Upstream", "failed to check network namespace closed",
                               SandboxID)

C7_Witness ==
    \E p \in Procs : \E i \in DOMAIN log[p] :
        /\ log[p][i].op = "teardownPod" /\ log[p][i].arg = ""
        /\ \E q \in Procs : \E j \in DOMAIN log[q] :
               log[q][j].op = "teardownPod" /\ log[q][j].arg = NetNSPath

\* C8: a successful call that read the state Ready, with member containers
\* c1 and c2, a namespace, and every collaborator succeeding, made exactly
\* these calls in this order: stop c1, stop c2 (timeout 0), unmount, task
\* query, SIGKILL, wait for the stop, NetNS.Closed, teardownPod with the
\* plugin's remove, NetNS.Remove; and the sandbox is NotReady.
C8_StopOrder ==
    \A p \in Procs :
        ( /\ pc[p] = "done" /\ ret[p] = Ok
          /\ st[p] = StateReady
          /\ Len(containers) = 3 /\ netNS
          /\ AllSucceeded(p) ) =>
            /\ Ops(p) = <<"stopContainer", "stopContainer", "unmountSandboxFiles",
                          "container.Task", "task.Kill", "waitSandboxStop",
                          "NetNS.Closed", "teardownPod", "netPlugin.Remove",
                          "NetNS.Remove">>
            /\ log[p][1].arg = "c1" /\ log[p][1].n = 0
            /\ log[p][2].arg = "c2" /\ log[p][2].n = 0
            /\ log[p][5].n = SIGKILL
            /\ state = StateNotReady

C8_Witness ==
    \E p \in Procs :
        /\ pc[p] = "done" /\ ret[p] = Ok
        /\ st[p] = StateReady
        /\ Len(containers) = 3 /\ netNS
        /\ AllSucceeded(p)
        /\ Len(log[p]) = 10

\* C9: with a namespace and no network plugin, the plugin's remove and
\* NetNS.Remove are never called and no call succeeds; a call that reaches
\* teardownPod has stopped every member container, unmounted the files and
\* passed the infra container stop, and it returns the configuration error.
C9_NoPlugin ==
    (netNS /\ ~netPlugin) =>
        \A p \in Procs :
            /\ ~Has(p, "netPlugin.Remove")
            /\ ~Has(p, "NetNS.Remove")
            /\ pc[p] = "done" => ret[p] # Ok
            /\ Has(p, "teardownPod") =>
                   /\ pc[p] = "done"
                   /\ ret[p] = Err("ConfigError", "failed to destroy network", SandboxID)
                   /\ Cardinality({i \in DOMAIN log[p] :
                          log[p][i].op = "stopContainer" /\ log[p][i].res = "ok"}) =
                      Cardinality({i \in DOMAIN containers :
                          containers[i].SandboxID = SandboxID})
                   /\ HasRes(p, "unmountSandboxFiles", "ok")
                   /\ ~IsErr(sscRet[p])

C9_Witness ==
    \E p \in Procs :
        /\ netNS /\ ~netPlugin
        /\ Has(p, "teardownPod")
        /\ Len(containers) = 3
        /\ HasRes(p, "task.Kill", "ok") /\ sscRet[p] = Ok
        /\ ret[p].kind = "ConfigError"

StepOf(op) ==
    CASE op = "stopContainer" -> 2
      [] op = "unmountSandboxFiles" -> 3
      [] op \in InfraOps \cup {"exitCancel", "waitCancel"} -> 4
      [] op = "NetNS.Closed" -> 5
      [] op \in {"teardownPod", "netPlugin.Remove"} -> 6
      [] op = "NetNS.Remove" -> 7
FailedStep(r) ==
    CASE r.step = "find sandbox" -> 1
      [] r.step = "failed to stop container" -> 2
      [] r.step = "failed to unmount sandbox files" -> 3
      [] r.step = "failed to stop sandbox container" -> 4
      [] r.step = "failed to check network namespace closed" -> 5
      [] r.step = "failed to destroy network" -> 6
      [] r.step = "failed to remove network namespace" -> 7
C11_Checkpoints ==
    \A p \in Procs :
        pc[p] = "done" =>
            /\ IsErr(ret[p]) =>
                  /\ \A i \in DOMAIN log[p] : StepOf(log[p][i].op) <= FailedStep(ret[p])
                  /\ FailedStep(ret[p]) = 1 => log[p] = <<>>
                  /\ FailedStep(ret[p]) \in {2, 3, 5, 6, 7} =>
                        /\ log[p] # <<>>
                        /\ StepOf(log[p][Len(log[p])].op) = FailedStep(ret[p])
                        /\ log[p][Len(log[p])].res \in {"error", "ConfigError"}
                  /\ FailedStep(ret[p]) = 4 => IsErr(sscRet[p])
            /\ ret[p] = Ok =>
                  /\ \A i \in DOMAIN log[p] : log[p][i].res \notin {"error", "ConfigError"}
                  /\ ~IsErr(sscRet[p])
            /\ ret[p] # None

C11_Witness ==
    \E p \in Procs :
        /\ pc[p] = "done"
        /\ ret[p] = Err("Upstream", "failed to destroy network", SandboxID)
        /\ HasRes(p, "stopContainer", "ok") /\ HasRes(p, "task.Kill", "ok")
        /\ ~Has(p, "NetNS.Remove")

\* C13: a call stops, in listing order and each with grace period 0,
\* exactly the listed containers whose SandboxID is the sandbox's ID: its
\* stops so far are a prefix of the members, each stop but a failed last one
\* succeeded, every member has been stopped once the call is past the loop,
\* no container of another sandbox is stopped, and the listing never changes.
IsMember(c) == c.SandboxID = SandboxID
Members == SelectSeq(containers, IsMember)
IsStop(e) == e.op = "stopContainer"
Stops(p) == SelectSeq(log[p], IsStop)
C13_StopsMembersOnly ==
    /\ [](\A p \in Procs :
            /\ Len(Stops(p)) <= Len(Members)
            /\ \A i \in DOMAIN Stops(p) :
                 /\ Stops(p)[i].arg = Members[i].ID
                 /\ Stops(p)[i].n = 0
                 /\ i < Len(Stops(p)) => Stops(p)[i].res = "ok"
            /\ (pc[p] \notin {"idle", "containers", "done"} \/ (pc[p] = "done" /\ ret[p] = Ok)) =>
                 /\ Len(Stops(p)) = Len(Members)
                 /\ \A i \in DOMAIN Stops(p) : Stops(p)[i].res = "ok")
    /\ [][containers' = containers]_vars

C13_Witness ==
    \E p \in Procs :
        /\ pc[p] = "unmount"
        /\ Len(containers) = 3
        /\ Len(Stops(p)) = 2
        /\ Stops(p)[1].arg = "c1" /\ Stops(p)[2].arg = "c2"

\* C14: once the exit monitor was started, stopSandboxContainer returns only
\* after exitCancel was called, the monitor has stopped and then the Wait
\* subscription was cancelled; the subscription is never cancelled while the
\* monitor runs, so the monitor handles no exit caused by that cancellation
\* and does nothing after the return.
SscDone(p) == pc[p] \in {"ssc_ret", "netns", "teardown", "remove", "done"}
C14_MonitorStoppedBeforeReturn ==
    \A p \in Procs :
        /\ sub[p] = "cancelled" => monitor[p] = "stopped"
        /\ monitor[p] # "none" => sscState[p] = StateUnknown
        /\ (SscDone(p) /\ monitor[p] # "none") =>
              /\ Has(p, "startExitMonitor")
              /\ monitor[p] = "stopped"
              /\ sub[p] = "cancelled"
              /\ Count(p, "exitCancel") = 1 /\ Count(p, "waitCancel") = 1
              /\ \E i, j \in DOMAIN log[p] :
                    /\ i < j
                    /\ log[p][i].op = "exitCancel"
                    /\ log[p][j].op = "waitCancel"
                    /\ j = Len(log[p]) \/ log[p][j + 1].op \notin InfraOps

C14_Witness ==
    \E p \in Procs :
        /\ Has(p, "startExitMonitor")
        /\ pc[p] = "ssc_ret"
        /\ sscRet[p].kind = "Timeout"
        /\ monitor[p] = "stopped" /\ sub[p] = "cancelled"

\* C15: in a call that read the state Unknown and found the task, a
\* not-found from task.Wait leads to exactly one synthetic exit event through
\* handleSandboxExit, whose result is returned, with no monitor, kill or
\* wait; any other task.Wait error is returned with no exit handling and no
\* kill.
C15_WaitNotFoundFallsBack ==
    \A p \in Procs :
        /\ sscState[p] # StateUnknown => ~Has(p, "task.Wait")
        /\ (sscState[p] = StateUnknown /\ HasRes(p, "task.Wait", "NotFound")) =>
              /\ HasRes(p, "container.Task", "found")
              /\ \A op \in {"startExitMonitor", "task.Kill", "waitSandboxStop",
                            "exitCancel"} : ~Has(p, op)
              /\ pc[p] # "cleanup" =>
                    /\ Count(p, "handleSandboxExit") = 1
                    /\ \E res \in {"ok", "error"} :
                          /\ HasRes(p, "handleSandboxExit", res)
                          /\ IsErr(sscRet[p]) <=> res = "error"
                          /\ res = "ok" => sscRet[p] = Ok
        /\ (sscState[p] = StateUnknown /\ HasRes(p, "task.Wait", "error")) =>
              /\ \A op \in {"startExitMonitor", "task.Kill", "waitSandboxStop",
                            "handleSandboxExit"} : ~Has(p, op)
              /\ sscRet[p] = Err("Upstream", "failed to wait for task", SandboxID)
              /\ pc[p] = "ssc_ret" \/
                   (pc[p] = "done" /\ ret[p].step = "failed to stop sandbox container")

C15_Witness ==
    \E p \in Procs :
        /\ HasRes(p, "task.Wait", "NotFound")
        /\ HasRes(p, "handleSandboxExit", "ok")
        /\ pc[p] = "ssc_ret" /\ sscRet[p] = Ok

\* C16: when the task query reports not-found and the state read at line 102
\* is not Unknown, stopSandboxContainer returns success having made no other
\* collaborator call (no subscription, monitor, kill, wait or exit handling);
\* a task-query error other than not-found is returned as an error.
C16_NotFoundIsNoOp ==
    \A p \in Procs :
        /\ (sscState[p] \in {StateReady, StateNotReady} /\
            HasRes(p, "container.Task", "NotFound")) =>
              /\ \A op \in InfraOps \ {"container.Task"} : ~Has(p, op)
              /\ ~Has(p, "exitCancel") /\ ~Has(p, "waitCancel")
              /\ sscRet[p] = Ok
              /\ pc[p] \in {"ssc_ret", "netns", "teardown", "remove", "done"}
              /\ pc[p] = "done" => ret[p].step # "failed to stop sandbox container"
        /\ (sscState[p] # "" /\ HasRes(p, "container.Task", "error")) =>
              /\ \A op \in InfraOps \ {"container.Task"} : ~Has(p, op)
              /\ sscRet[p] = Err("Upstream", "failed to get sandbox container", SandboxID)
              /\ pc[p] = "ssc_ret" \/
                   (pc[p] = "done" /\ ret[p].step = "failed to stop sandbox container")

C16_Witness ==
    \E p \in Procs :
        /\ sscState[p] = StateReady
        /\ HasRes(p, "container.Task", "NotFound")
        /\ pc[p] = "ssc_ret" /\ sscRet[p] = Ok

\* C17: in a call that found the task (and, for state Unknown, subscribed and
\* started the monitor) exactly one SIGKILL is sent; after a kill that
\* succeeded or reported not-found the bounded wait is entered, after any
\* other kill error the call returns that error without entering the wait.
PastKill(p) == pc[p] \notin {"idle", "containers", "unmount", "state", "ssc", "task",
                             "wait", "monitor", "kill", "cleanup"}
C17_KillThenWait ==
    \A p \in Procs :
        /\ ( /\ PastKill(p)
             /\ sscState[p] # ""
             /\ HasRes(p, "container.Task", "found")
             /\ sscState[p] = StateUnknown => Has(p, "startExitMonitor") ) =>
              /\ Count(p, "task.Kill") = 1
              /\ \A i \in DOMAIN log[p] :
                    log[p][i].op = "task.Kill" => log[p][i].n = SIGKILL
              /\ (HasRes(p, "task.Kill", "ok") \/ HasRes(p, "task.Kill", "NotFound")) =>
                    (Has(p, "waitSandboxStop") \/ pc[p] = "waitstop")
              /\ HasRes(p, "task.Kill", "error") =>
                    /\ ~Has(p, "waitSandboxStop")
                    /\ sscRet[p] = Err("Upstream", "failed to kill sandbox container",
                                       SandboxID)
        /\ (sscState[p] # "" /\ Has(p, "task.Kill")) =>
              HasRes(p, "container.Task", "found")

C17_Witness ==
    \E p \in Procs :
        /\ HasRes(p, "task.Kill", "NotFound")
        /\ WaitReturned(p) /\ sscRet[p] = Ok

\* C18 as stated: the result of waitSandboxStop is that of the event that
\* fired first; in particular it is success whenever the stopped signal fired
\* before the context was cancelled and before the timer expired.
FirstEvent(p) == IF woken[p] = "none" THEN "stopped" ELSE woken[p]
C18_FirstEventWins ==
    \A p \in Procs :
        WaitReturned(p) => sscRet[p] = SelectResult(FirstEvent(p), SandboxID)

\* C18 amended: when the select blocks, the first event to fire decides the
\* result; when exactly one of the stopped signal and the cancellation has
\* fired before the select is evaluated, that event decides; when both have,
\* the result is success or the cancellation error, in whatever order the
\* two fired.
WaitEntry(p) ==
    (CHOOSE i \in DOMAIN log[p] : log[p][i].op = "waitSandboxStop")
CancelledError == Err("Cancelled", "wait sandbox container is cancelled", SandboxID)
TimeoutError == Err("Timeout", "wait sandbox container stop timeout", SandboxID)
C18_FirstEventWinsWhenBlocked ==
    \A p \in Procs :
        WaitReturned(p) =>
            LET at == log[p][WaitEntry(p)].res IN
            /\ at = "blocked" =>
                   /\ woken[p] = "stopped" => sscRet[p] = Ok
                   /\ woken[p] = "cancelled" => sscRet[p] = CancelledError
                   /\ woken[p] = "timeout" => sscRet[p] = TimeoutError
                   /\ woken[p] # "none"
            /\ at = "stopped" => sscRet[p] = Ok
            /\ at = "cancelled" => sscRet[p] = CancelledError
            /\ at = "both" => sscRet[p] \in {Ok, CancelledError}

C18_Witness ==
    \E p \in Procs :
        /\ WaitReturned(p)
        /\ log[p][WaitEntry(p)].res = "both"
        /\ woken[p] = "stopped"
        /\ sscRet[p].kind = "Cancelled"

\* C19 as stated: whenever a call has returned success the sandbox is
\* NotReady.
C19_SuccessImpliesNotReady ==
    \A p \in Procs : (pc[p] = "done" /\ ret[p] = Ok) => state = StateNotReady

\* C19 amended: whenever a call has returned success the sandbox is NotReady,
\* unless its stopSandboxContainer read the state Ready and the task query
\* reported not-found: then the call made no exit handling, kill or wait of
\* its own and the state is whatever the exit handling has made it.
ReadyNoTask(p) ==
    sscState[p] = StateReady /\ HasRes(p, "container.Task", "NotFound")
C19_SuccessImpliesNotReadyUnlessNoTask ==
    \A p \in Procs :
        (pc[p] = "done" /\ ret[p] = Ok) =>
            /\ ~ReadyNoTask(p) => state = StateNotReady
            /\ ReadyNoTask(p) =>
                   \A op \in InfraOps \ {"container.Task"} : ~Has(p, op)

C19_Witness ==
    \E p \in Procs :
        /\ pc[p] = "done" /\ ret[p] = Ok
        /\ st[p] = StateReady /\ ~ReadyNoTask(p)
        /\ HasRes(p, "task.Kill", "ok")
        /\ state = StateNotReady

\* C20: every call that was started returns, success or error, whether or
\* not the infra process ever exits.
C20_CallReturns ==
    (pc[Caller] \notin {"idle", "done"}) ~> (pc[Caller] = "done")

C20_Witness ==
    \E p \in Procs :
        /\ pc[p] = "done"
        /\ taskState = "running"
        /\ Has(p, "startExitMonitor") /\ Has(p, "waitCancel")
        /\ ret[p].kind = "Timeout"

\* C12: after a call has failed with the timeout or the cancellation of the
\* bounded wait, with a network plugin configured, a later call of the
\* retrying caller returns success with the sandbox NotReady; the failed call
\* leaves nothing behind that keeps every retry from succeeding.
WaitFailed(p) == pc[p] = "done" /\ ret[p].kind \in {"Timeout", "Cancelled"}
C12_RetrySucceeds ==
    (WaitFailed(Caller) /\ netPlugin) ~>
        (pc[Caller] = "done" /\ ret[Caller] = Ok /\ state = StateNotReady)

C12_Witness ==
    /\ pc[Caller] = "done" /\ ret[Caller] = Ok /\ state = StateNotReady
    /\ calls = MaxCalls /\ okCalls = 1
    /\ initState = StateUnknown
    /\ HasRes(Caller, "task.Wait", "ok") /\ Has(Caller, "waitCancel")

====
